---- MODULE Spec2Model ----
(***************************************************************************)
(* Model of server.js: the tournament registration backend.                *)
(*                                                                         *)
(* Strings that the code trims, lower-cases, measures or hashes are        *)
(* sequences of one-character strings; status values and error messages,   *)
(* which the code only compares or returns, are plain strings.             *)
(* Every handler is synchronous (no await between its first statement and  *)
(* its response), so one handler is one atomic step.                       *)
(***************************************************************************)
EXTENDS Integers, Sequences, FiniteSets, TLC

VARIABLES
    participants,     \* rows of table participants: [id, name, game, status]
    pSeq,             \* AUTOINCREMENT counter of participants (sqlite_sequence)
    tournaments,      \* rows of table tournaments: [id, game, name, max_players, status]
    tSeq,             \* AUTOINCREMENT counter of tournaments
    admins,           \* rows of table admins: [id, username, password]
    lastInsertRowid,  \* last_insert_rowid() of the open connection
    disk,             \* content of the file DB_PATH
    session,          \* session store: session token -> admin identity
    lastReq,          \* the request handled last
    lastResp,         \* the response sent to it
    written,          \* the snapshots saveDB wrote while handling it, in order
    before,           \* history: the tables and sessions when that request arrived
    pwChange          \* history: old/new password of the last successful change

dbvars == <<participants, pSeq, tournaments, tSeq, admins>>
vars == <<participants, pSeq, tournaments, tSeq, admins, lastInsertRowid, disk,
          session, lastReq, lastResp, written, before, pwChange>>

----------------------------------------------------------------------------
(* Bounds *)

MaxPid == 2          \* participants inserted in one run
MaxTid == 1          \* tournaments inserted in one run

----------------------------------------------------------------------------
(* Strings *)

Rep(c, n) == [i \in 1..n |-> c]

\* a body field that the request does not carry (undefined in the handler)
Absent == <<"undefined">>

\* !v of the handlers, for a field that is absent or a string
Falsy(v) == v = Absent \/ v = <<>>

IsSpace(c) == c = " "

RECURSIVE TrimStart(_)
TrimStart(s) ==
    IF s = <<>> THEN <<>>
    ELSE IF IsSpace(Head(s)) THEN TrimStart(Tail(s)) ELSE s

RECURSIVE TrimEnd(_)
TrimEnd(s) ==
    IF s = <<>> THEN <<>>
    ELSE IF IsSpace(s[Len(s)]) THEN TrimEnd(SubSeq(s, 1, Len(s) - 1)) ELSE s

\* String.prototype.trim
Trim(s) == TrimEnd(TrimStart(s))

\* SQLite LOWER(): folds the ASCII letters only
LowerChar(c) ==
    CASE c = "A" -> "a"
      [] c = "B" -> "b"
      [] c = "G" -> "g"
      [] c = "X" -> "x"
      [] OTHER -> c

Lower(s) == [i \in 1..Len(s) |-> LowerChar(s[i])]

----------------------------------------------------------------------------
(* Password hashing: bcryptjs *)

\* bcrypt reads at most the first 72 bytes of a password
Truncate(p) == SubSeq(p, 1, IF Len(p) < 72 THEN Len(p) ELSE 72)

Salts == {"s1", "s2"}

\* bcrypt.hashSync with the salt it drew: a one-way digest, modelled as
\* injective in the truncated password
HashSync(p, salt) == [salt |-> salt, digest |-> Truncate(p)]

\* bcrypt.compareSync: re-hashes with the salt stored in the hash
CompareSync(p, hash) == HashSync(p, hash.salt) = hash

----------------------------------------------------------------------------
(* The store *)

Active == <<"a", "c", "t", "i", "v", "e">>
Banned == <<"b", "a", "n", "n", "e", "d">>
Upcoming == <<"u", "p", "c", "o", "m", "i", "n", "g">>
Admin123 == <<"a", "d", "m", "i", "n", "1", "2", "3">>
AdminName == <<"a", "d", "m", "i", "n">>
DefaultMaxPlayers == 32

\* db.export(): the tables and their AUTOINCREMENT counters
Snapshot(p, ps, t, ts, a) ==
    [participants |-> p, pSeq |-> ps, tournaments |-> t, tSeq |-> ts, admins |-> a]

\* a saveDB that returns without writing
SaveDBSkipped(mem, file, rowid) == [file |-> file, wrote |-> <<>>, rowid |-> rowid]

\* saveDB() on the in-memory database mem: the file it leaves, what it wrote,
\* and last_insert_rowid() of the connection afterwards. sql.js export()
\* closes and reopens the connection, and the value is per connection.
SaveDB(mem, file, rowid) == [file |-> mem, wrote |-> <<mem>>, rowid |-> 0]

\* a handler that returns before any write
NoWrite ==
    /\ UNCHANGED <<participants, pSeq, tournaments, tSeq, admins>>
    /\ UNCHANGED <<disk, lastInsertRowid>>
    /\ written' = <<>>

\* res.status(..).json(..)
Reply(req, resp) ==
    /\ lastReq' = req
    /\ lastResp' = resp
    /\ before' = [db |-> Snapshot(participants, pSeq, tournaments, tSeq, admins),
                  session |-> session]

Err(status, msg) == [status |-> status, error |-> msg]

----------------------------------------------------------------------------
(* Sessions and the guard *)

Sessions == {"c1", "c2"}

\* a session without req.session.admin
NoAdmin == [id |-> 0, username |-> <<>>]

\* a guard that lets every request through
RequireAdminOpen(sess) == TRUE

RequireAdmin(sess) == sess # NoAdmin

Unauthorized == Err(401, "Non autorise - connectez-vous")

\* requireAdmin answering instead of the handler
Reject(req) ==
    /\ Reply(req, Unauthorized)
    /\ NoWrite
    /\ UNCHANGED <<session, pwChange>>

----------------------------------------------------------------------------
(* initDB on an absent file: empty tables, one seeded admin, then saveDB.   *)
(* The salts are interchangeable, so the seed's salt is fixed.             *)

Init ==
    \E salt \in {"s1"} :
        LET seeded == {[id |-> 1, username |-> AdminName,
                        password |-> HashSync(Admin123, salt)]}
            sv == SaveDB(Snapshot({}, 0, {}, 0, seeded), Snapshot({}, 0, {}, 0, {}), 1)
        IN  /\ participants = {}
            /\ pSeq = 0
            /\ tournaments = {}
            /\ tSeq = 0
            /\ admins = seeded
            /\ lastInsertRowid = sv.rowid
            /\ disk = sv.file
            /\ session = [s \in Sessions |-> NoAdmin]
            /\ lastReq = [route |-> "initDB"]
            /\ lastResp = [status |-> 0]
            /\ written = sv.wrote
            /\ before = [db |-> Snapshot({}, 0, {}, 0, {}),
                         session |-> [s \in Sessions |-> NoAdmin]]
            /\ pwChange = <<>>

----------------------------------------------------------------------------
(* POST /api/register *)

RegisterPresent(name, game) == ~Falsy(name) /\ ~Falsy(game)

\* the length check on the name as sent, without trim()
NameLengthOkUntrimmed(name) == ~(Len(name) < 2 \/ Len(name) > 40)

NameLengthOk(name) == ~(Len(Trim(name)) < 2 \/ Len(Trim(name)) > 40)

\* SELECT COUNT(*) ... WHERE LOWER(name)=LOWER(?) AND LOWER(game)=LOWER(?)
\*                       AND status='active'
DupCount(rows, n, g) ==
    Cardinality({r \in rows : /\ Lower(r.name) = Lower(n)
                              /\ Lower(r.game) = Lower(g)
                              /\ r.status = Active})

\* INSERT INTO participants (name, game, ...): id from AUTOINCREMENT,
\* status from the column default
InsertParticipant(rows, seq, n, g) ==
    rows \cup {[id |-> seq + 1, name |-> n, game |-> g, status |-> Active]}

Register(name, game) ==
    LET req == [route |-> "register", name |-> name, game |-> game] IN
    /\ UNCHANGED <<session, pwChange>>
    /\ IF ~RegisterPresent(name, game)
       THEN Reply(req, Err(400, "Le nom et le jeu sont requis")) /\ NoWrite
       ELSE IF ~NameLengthOk(name)
       THEN Reply(req, Err(400, "Le nom doit contenir entre 2 et 40 caracteres"))
            /\ NoWrite
       ELSE IF DupCount(participants, Trim(name), Trim(game)) > 0
       THEN Reply(req, Err(409, "Tu es deja inscrit a ce jeu !")) /\ NoWrite
       ELSE LET rows == InsertParticipant(participants, pSeq, Trim(name), Trim(game))
                sv == SaveDB(Snapshot(rows, pSeq + 1, tournaments, tSeq, admins),
                             disk, pSeq + 1)
            IN  /\ pSeq < MaxPid
                /\ participants' = rows
                /\ pSeq' = pSeq + 1
                /\ UNCHANGED <<tournaments, tSeq, admins>>
                /\ disk' = sv.file
                /\ written' = sv.wrote
                /\ lastInsertRowid' = sv.rowid
                /\ Reply(req, [status |-> 201, id |-> sv.rowid])

----------------------------------------------------------------------------
(* POST /api/admin/login, POST /api/admin/logout, session expiry *)

LoginMissing == Err(400, "Identifiants requis")
\* an answer that tells an unknown username from a wrong password
LoginUnknownUser404 == Err(404, "Utilisateur inconnu")

LoginUnknownUser == Err(401, "Identifiants incorrects")
LoginBadPassword == Err(401, "Identifiants incorrects")

Login(s, username, password) ==
    LET req == [route |-> "login", sess |-> s,
                username |-> username, password |-> password]
        rows == {a \in admins : a.username = username}
    IN
    /\ NoWrite
    /\ UNCHANGED pwChange
    /\ IF Falsy(username) \/ Falsy(password)
       THEN Reply(req, LoginMissing) /\ UNCHANGED session
       ELSE IF rows = {}
       THEN Reply(req, LoginUnknownUser) /\ UNCHANGED session
       ELSE LET admin == CHOOSE a \in rows : TRUE IN
            IF ~CompareSync(password, admin.password)
            THEN Reply(req, LoginBadPassword) /\ UNCHANGED session
            ELSE /\ session' = [session EXCEPT
                                  ![s] = [id |-> admin.id, username |-> admin.username]]
                 /\ Reply(req, [status |-> 200,
                                admin |-> [id |-> admin.id, username |-> admin.username]])

Logout(s) ==
    /\ session' = [session EXCEPT ![s] = NoAdmin]
    /\ Reply([route |-> "logout", sess |-> s], [status |-> 200])
    /\ NoWrite
    /\ UNCHANGED pwChange

\* cookie maxAge: the session store drops a session 24h after it was set
Expire(s) ==
    /\ session[s] # NoAdmin
    /\ session' = [session EXCEPT ![s] = NoAdmin]
    /\ Reply([route |-> "expire", sess |-> s], [status |-> 0])
    /\ NoWrite
    /\ UNCHANGED pwChange

----------------------------------------------------------------------------
(* Admin routes on participants *)

\* the three read-only admin routes; the body is reduced to the row count
AdminRead(s, route) ==
    LET req == [route |-> route, sess |-> s] IN
    IF ~RequireAdmin(session[s]) THEN Reject(req)
    ELSE /\ Reply(req, [status |-> 200, rows |-> Cardinality(participants)])
         /\ NoWrite
         /\ UNCHANGED <<session, pwChange>>

\* a DELETE with <= for =
DeleteRowsUpTo(rows, id) == {r \in rows : r.id > id}

\* DELETE FROM participants WHERE id=?
DeleteRows(rows, id) == {r \in rows : r.id # id}

DeleteParticipant(s, id) ==
    LET req == [route |-> "deleteParticipant", sess |-> s, id |-> id] IN
    IF ~RequireAdmin(session[s]) THEN Reject(req)
    ELSE LET rows == DeleteRows(participants, id)
             sv == SaveDB(Snapshot(rows, pSeq, tournaments, tSeq, admins),
                          disk, lastInsertRowid)
         IN  /\ participants' = rows
             /\ UNCHANGED <<pSeq, tournaments, tSeq, admins, session, pwChange>>
             /\ disk' = sv.file
             /\ written' = sv.wrote
             /\ lastInsertRowid' = sv.rowid
             /\ Reply(req, [status |-> 200, message |-> "Participant supprime"])

\* UPDATE participants SET col=? WHERE id=?
UpdateWhereId(rows, id, col, val) ==
    {IF r.id = id THEN [r EXCEPT ![col] = val] ELSE r : r \in rows}

\* the three updates chained with else: only the first field given is applied
PatchRowsFirstOnly(rows, id, status, name, game) ==
    IF ~Falsy(status) THEN {IF r.id = id THEN [r EXCEPT !.status = status] ELSE r : r \in rows}
    ELSE IF ~Falsy(name)
    THEN {IF r.id = id THEN [r EXCEPT !.name = Trim(name)] ELSE r : r \in rows}
    ELSE IF ~Falsy(game)
    THEN {IF r.id = id THEN [r EXCEPT !.game = Trim(game)] ELSE r : r \in rows}
    ELSE rows

\* one UPDATE per field the body carries, in the order status, name, game
PatchRows(rows, id, status, name, game) ==
    LET r1 == IF Falsy(status) THEN rows ELSE UpdateWhereId(rows, id, "status", status)
        r2 == IF Falsy(name) THEN r1 ELSE UpdateWhereId(r1, id, "name", Trim(name))
        r3 == IF Falsy(game) THEN r2 ELSE UpdateWhereId(r2, id, "game", Trim(game))
    IN  r3

UpdateParticipant(s, id, status, name, game) ==
    LET req == [route |-> "updateParticipant", sess |-> s, id |-> id,
                status |-> status, name |-> name, game |-> game] IN
    IF ~RequireAdmin(session[s]) THEN Reject(req)
    ELSE LET rows == PatchRows(participants, id, status, name, game)
             sv == SaveDB(Snapshot(rows, pSeq, tournaments, tSeq, admins),
                          disk, lastInsertRowid)
         IN  /\ participants' = rows
             /\ UNCHANGED <<pSeq, tournaments, tSeq, admins, session, pwChange>>
             /\ disk' = sv.file
             /\ written' = sv.wrote
             /\ lastInsertRowid' = sv.rowid
             /\ Reply(req, [status |-> 200, message |-> "Participant mis a jour"])

----------------------------------------------------------------------------
(* Admin routes on tournaments *)

CreateTournament(s, game, name, maxPlayers) ==
    LET req == [route |-> "createTournament", sess |-> s, game |-> game,
                name |-> name, max_players |-> maxPlayers] IN
    IF ~RequireAdmin(session[s]) THEN Reject(req)
    ELSE IF Falsy(game) \/ Falsy(name)
    THEN Reply(req, Err(400, "Nom et jeu requis")) /\ NoWrite
         /\ UNCHANGED <<session, pwChange>>
    ELSE LET row == [id |-> tSeq + 1, game |-> game, name |-> name,
                     max_players |-> IF maxPlayers = 0 THEN DefaultMaxPlayers
                                     ELSE maxPlayers,
                     status |-> Upcoming]
             sv == SaveDB(Snapshot(participants, pSeq, tournaments \cup {row},
                                   tSeq + 1, admins), disk, tSeq + 1)
         IN  /\ tSeq < MaxTid
             /\ tournaments' = tournaments \cup {row}
             /\ tSeq' = tSeq + 1
             /\ UNCHANGED <<participants, pSeq, admins, session, pwChange>>
             /\ disk' = sv.file
             /\ written' = sv.wrote
             /\ lastInsertRowid' = sv.rowid
             /\ Reply(req, [status |-> 201, message |-> "Tournoi cree"])

DeleteTournament(s, id) ==
    LET req == [route |-> "deleteTournament", sess |-> s, id |-> id] IN
    IF ~RequireAdmin(session[s]) THEN Reject(req)
    ELSE LET rows == DeleteRows(tournaments, id)
             sv == SaveDB(Snapshot(participants, pSeq, rows, tSeq, admins),
                          disk, lastInsertRowid)
         IN  /\ tournaments' = rows
             /\ UNCHANGED <<participants, pSeq, tSeq, admins, session, pwChange>>
             /\ disk' = sv.file
             /\ written' = sv.wrote
             /\ lastInsertRowid' = sv.rowid
             /\ Reply(req, [status |-> 200])

UpdateTournamentStatus(s, id, status) ==
    LET req == [route |-> "updateTournamentStatus", sess |-> s, id |-> id,
                status |-> status] IN
    IF ~RequireAdmin(session[s]) THEN Reject(req)
    ELSE LET rows == IF Falsy(status) THEN tournaments
                     ELSE UpdateWhereId(tournaments, id, "status", status)
             sv == SaveDB(Snapshot(participants, pSeq, rows, tSeq, admins),
                          disk, lastInsertRowid)
         IN  /\ tournaments' = rows
             /\ UNCHANGED <<participants, pSeq, tSeq, admins, session, pwChange>>
             /\ disk' = sv.file
             /\ written' = sv.wrote
             /\ lastInsertRowid' = sv.rowid
             /\ Reply(req, [status |-> 200])

----------------------------------------------------------------------------
(* POST /api/admin/change-password *)

PasswordsPresent(cur, new) == ~Falsy(cur) /\ ~Falsy(new)

\* the length check with <= for <
NewPasswordLongerThan6(new) == ~(Len(new) <= 6)

NewPasswordLongEnough(new) == ~(Len(new) < 6)

ChangePassword(s, cur, new) ==
    LET req == [route |-> "changePassword", sess |-> s,
                currentPassword |-> cur, newPassword |-> new] IN
    IF ~RequireAdmin(session[s]) THEN Reject(req)
    ELSE IF ~PasswordsPresent(cur, new)
    THEN Reply(req, Err(400, "Mots de passe requis")) /\ NoWrite
         /\ UNCHANGED <<session, pwChange>>
    ELSE IF ~NewPasswordLongEnough(new)
    THEN Reply(req, Err(400, "Minimum 6 caracteres")) /\ NoWrite
         /\ UNCHANGED <<session, pwChange>>
    ELSE LET row == CHOOSE a \in admins : a.id = session[s].id IN
         IF ~CompareSync(cur, row.password)
         THEN Reply(req, Err(401, "Mot de passe actuel incorrect")) /\ NoWrite
              /\ UNCHANGED <<session, pwChange>>
         ELSE \E salt \in Salts :
              LET rows == UpdateWhereId(admins, session[s].id, "password",
                                        HashSync(new, salt))
                  sv == SaveDB(Snapshot(participants, pSeq, tournaments, tSeq, rows),
                               disk, lastInsertRowid)
              IN  /\ admins' = rows
                  /\ UNCHANGED <<participants, pSeq, tournaments, tSeq, session>>
                  /\ disk' = sv.file
                  /\ written' = sv.wrote
                  /\ lastInsertRowid' = sv.rowid
                  /\ pwChange' = <<[old |-> cur, new |-> new]>>
                  /\ Reply(req, [status |-> 200, message |-> "Mot de passe modifie"])

----------------------------------------------------------------------------
(* Process restart: initDB on the file the last saveDB left *)

Restart ==
    LET sv == SaveDB(disk, disk, 0) IN
    /\ participants' = disk.participants
    /\ pSeq' = disk.pSeq
    /\ tournaments' = disk.tournaments
    /\ tSeq' = disk.tSeq
    /\ admins' = disk.admins
    /\ disk' = sv.file
    /\ written' = sv.wrote
    /\ lastInsertRowid' = sv.rowid
    /\ session' = [s \in Sessions |-> NoAdmin]
    /\ Reply([route |-> "initDB"], [status |-> 0])
    /\ UNCHANGED pwChange

----------------------------------------------------------------------------
(* Request inputs *)

Name40 == Rep("x", 40)

\* names around the length limits, with and without surrounding blanks
RegNames ==
    {Absent, <<>>, <<" ", " ">>, <<"a">>, <<" ", "a", " ">>, <<"a", "b">>,
     <<" ", "A", "B", " ">>, Name40, <<" ">> \o Name40, Name40 \o <<"x">>}

RegGames == {Absent, <<>>, <<"g">>, <<"G", " ">>}

\* names and games of the duplicate check
DupNames == {<<"a", "b">>, <<" ", "A", "B", " ">>}
DupGames == {<<"g">>, <<"G", " ">>}

\* PATCH bodies: one field, several fields, empty fields, no field
Body(status, name, game) == [status |-> status, name |-> name, game |-> game]

PatchBodies ==
    {Body(Active, Absent, Absent), Body(Banned, Absent, Absent),
     Body(Absent, <<" ", "a", "b">>, Absent), Body(Absent, Absent, <<"G", " ">>),
     Body(Banned, <<"A", "B">>, <<"g">>), Body(Active, <<>>, <<"g">>),
     Body(<<>>, <<>>, <<>>), Body(Absent, Absent, Absent)}

ParticipantIds == 1..MaxPid
TournamentIds == 1..MaxTid

Password6 == Rep("q", 6)
LongA == Rep("p", 72) \o <<"a">>
LongB == Rep("p", 72) \o <<"b">>

LoginNames == {Absent, <<>>, AdminName, <<"A", "d", "m", "i", "n">>}
Passwords == {Absent, <<>>, Admin123, Rep("q", 5), Password6, LongA, LongB}

----------------------------------------------------------------------------
(* Specifications *)

LoginAdmin == \E s \in Sessions : Login(s, AdminName, Admin123)
DoLogout == \E s \in Sessions : Logout(s)
DoRegister == \E name \in RegNames, game \in RegGames : Register(name, game)
DoDeleteParticipant == \E s \in Sessions, id \in ParticipantIds : DeleteParticipant(s, id)
DoUpdateParticipant ==
    \E s \in Sessions, id \in ParticipantIds, b \in PatchBodies :
        UpdateParticipant(s, id, b.status, b.name, b.game)

\* registration with names around the limits
NextV ==
    \/ LoginAdmin
    \/ DoRegister
    \/ DoDeleteParticipant

SpecV == Init /\ [][NextV]_vars

DupRegister == \E name \in DupNames, game \in DupGames : Register(name, game)

\* the participant routes, requested from one browser session
Browser == "c1"

NextP ==
    \/ Login(Browser, AdminName, Admin123)
    \/ Logout(Browser)
    \/ DupRegister
    \/ \E id \in ParticipantIds : DeleteParticipant(Browser, id)
    \/ \E id \in ParticipantIds, b \in PatchBodies :
           UpdateParticipant(Browser, id, b.status, b.name, b.game)

SpecP == Init /\ [][NextP]_vars

DoLogin == \E s \in Sessions, u \in LoginNames, p \in Passwords : Login(s, u, p)
DoExpire == \E s \in Sessions : Expire(s)
DoChangePassword == \E s \in Sessions, cur \in Passwords, new \in Passwords :
                        ChangePassword(s, cur, new)

\* the credential routes
NextA ==
    \/ DoLogin
    \/ DoLogout
    \/ DoExpire
    \/ DoChangePassword
    \/ Restart

SpecA == Init /\ [][NextA]_vars

Live == <<"l", "i", "v", "e">>
CupName == <<"c", "u", "p">>

AdminReads == {"listAllParticipants", "dashboard", "exportCsv"}

\* every route that writes or is guarded, each with a few inputs
Next ==
    \/ \E s \in Sessions, p \in {Admin123, Password6} : Login(s, AdminName, p)
    \/ DoLogout
    \/ DoExpire
    \/ Restart
    \/ \E name \in {Absent, <<"a", "b">>} : Register(name, <<"g">>)
    \/ \E s \in Sessions, route \in AdminReads : AdminRead(s, route)
    \/ DoDeleteParticipant
    \/ \E s \in Sessions, id \in ParticipantIds :
           UpdateParticipant(s, id, Banned, Absent, Absent)
    \/ \E s \in Sessions, game \in {Absent, <<"g">>} :
           CreateTournament(s, game, CupName, 0)
    \/ \E s \in Sessions, id \in TournamentIds : DeleteTournament(s, id)
    \/ \E s \in Sessions, id \in TournamentIds : UpdateTournamentStatus(s, id, Live)
    \/ \E s \in Sessions, new \in {Password6, Rep("q", 5)} :
           ChangePassword(s, Admin123, new)

Spec == Init /\ [][Next]_vars

----------------------------------------------------------------------------
(* Properties *)

Ids(rows) == {r.id : r \in rows}
Authed == before.session[lastReq.sess] # NoAdmin
SameKey(n1, g1, n2, g2) == Lower(n1) = Lower(n2) /\ Lower(g1) = Lower(g2)
CurrentDb == Snapshot(participants, pSeq, tournaments, tSeq, admins)

\* C1: no two active participants have the same (name, game) pair, compared
\* case-insensitively.
NoDuplicateActive ==
    \A r1 \in participants, r2 \in participants :
        (/\ r1.status = Active
         /\ r2.status = Active
         /\ SameKey(r1.name, r1.game, r2.name, r2.game)) => r1.id = r2.id

GuardedRoutes ==
    AdminReads \cup {"deleteParticipant", "updateParticipant", "createTournament",
                     "deleteTournament", "updateTournamentStatus", "changePassword"}

\* C2: a request to a guarded route from a session without admin identity gets
\* the fixed 401 response, writes nothing and leaves the tables and the file as
\* they were; a guarded route answers otherwise only for a session with an
\* identity; a session gets its identity only by a successful login of that
\* session and has none after its logout.
GuardDecides ==
    /\ lastReq.route \in GuardedRoutes =>
          IF Authed THEN lastResp # Unauthorized
          ELSE /\ lastResp = Unauthorized
               /\ CurrentDb = before.db
               /\ written = <<>>
               /\ disk = before.db
    /\ \A s \in Sessions :
          (before.session[s] = NoAdmin /\ session[s] # NoAdmin) =>
              /\ lastReq.route = "login"
              /\ lastReq.sess = s
              /\ lastResp.status = 200
    /\ lastReq.route = "logout" => session[lastReq.sess] = NoAdmin

\* C2 witness: a logged-out session is refused the deletion of an existing row
\* while the other session is logged in.
GuardWitness ==
    /\ lastReq.route = "deleteParticipant"
    /\ lastResp = Unauthorized
    /\ lastReq.id \in Ids(participants)
    /\ \E s \in Sessions : session[s] # NoAdmin

----------------------------------------------------------------------------

\* C3 (as claimed): when an active participant has just been deleted, a register
\* of its (name, game) pair that passes validation answers 201.
ReRegisterSucceeds ==
    [][(/\ lastReq.route = "deleteParticipant"
        /\ lastResp.status = 200
        /\ lastReq'.route = "register"
        /\ RegisterPresent(lastReq'.name, lastReq'.game)
        /\ NameLengthOk(lastReq'.name)
        /\ \E r \in before.db.participants :
              /\ r.id = lastReq.id
              /\ r.status = Active
              /\ SameKey(r.name, r.game, Trim(lastReq'.name), Trim(lastReq'.game)))
       => lastResp'.status = 201]_vars

----------------------------------------------------------------------------

\* C4 (as claimed): every failed login answers with the AuthError status 401.
FailedLoginIs401 ==
    (lastReq.route = "login" /\ lastResp.status # 200) => lastResp.status = 401

\* C4 (amended): a login without username or password answers 400 "Identifiants
\* requis"; a login with an unknown username and one with a wrong password
\* answer the same 401 "Identifiants incorrects"; a failed login leaves every
\* session as it was.
LoginFailures ==
    lastReq.route = "login" =>
        LET u == lastReq.username
            p == lastReq.password
            rows == {a \in before.db.admins : a.username = u}
            missing == Falsy(u) \/ Falsy(p)
            unknown == ~missing /\ rows = {}
            wrong == ~missing /\ \E a \in rows : ~CompareSync(p, a.password)
        IN  /\ missing => lastResp = [status |-> 400, error |-> "Identifiants requis"]
            /\ unknown => lastResp = [status |-> 401, error |-> "Identifiants incorrects"]
            /\ wrong => lastResp = [status |-> 401, error |-> "Identifiants incorrects"]
            /\ (missing \/ unknown \/ wrong) <=> lastResp.status # 200
            /\ lastResp.status # 200 => session = before.session

\* C4 witness: an unknown username is answered exactly like a wrong password.
LoginWitness ==
    /\ lastReq.route = "login"
    /\ lastReq.username = <<"A", "d", "m", "i", "n">>
    /\ lastReq.password = Admin123
    /\ lastResp = LoginBadPassword

----------------------------------------------------------------------------

\* C5: the file always holds the in-memory tables; a handler that changed a
\* table or answered a write with success has written the file, and the last
\* snapshot it wrote is the tables as they are when it answers.
PersistedBeforeResponse ==
    /\ disk = CurrentDb
    /\ CurrentDb # before.db => written # <<>>
    /\ written # <<>> => written[Len(written)] = CurrentDb
    /\ (/\ lastReq.route \in (GuardedRoutes \ AdminReads) \cup {"register"}
        /\ lastResp.status \in {200, 201}) => written # <<>>

\* C5 witness: two writes in a row, both in the file.
PersistWitness ==
    /\ lastReq.route = "updateParticipant"
    /\ lastResp.status = 200
    /\ CurrentDb # before.db
    /\ before.db.tournaments # {}
    /\ disk.tournaments = tournaments
    /\ disk.participants = participants

----------------------------------------------------------------------------

AdminRow(rows, id) == CHOOSE a \in rows : a.id = id
LoginOfAdmin == lastReq.route = "login" /\ lastReq.username = AdminName /\ pwChange # <<>>

\* C6 (as claimed): after a successful changePassword a login with the old
\* password fails.
OldPasswordFails ==
    (LoginOfAdmin /\ lastReq.password = pwChange[1].old) => lastResp.status # 200

\* C6 (amended): after a successful changePassword a login with the new
\* password succeeds, and a login with the old password fails unless old and
\* new password agree on their first 72 characters (as when they are equal);
\* changePassword by a logged-in admin succeeds exactly when both passwords are
\* present, the new one has at least 6 characters and the current one verifies
\* against the row of the session's admin; when it fails the admins table is
\* unchanged.
ChangePasswordEffect ==
    /\ LoginOfAdmin =>
          /\ lastReq.password = pwChange[1].new => lastResp.status = 200
          /\ (/\ lastReq.password = pwChange[1].old
              /\ Truncate(pwChange[1].old) # Truncate(pwChange[1].new))
             => lastResp.status = 401
    /\ (lastReq.route = "changePassword" /\ Authed) =>
          LET cur == lastReq.currentPassword
              new == lastReq.newPassword
              id == before.session[lastReq.sess].id
              ok == /\ cur # Absent /\ cur # <<>>
                    /\ new # Absent /\ new # <<>>
                    /\ Len(new) >= 6
                    /\ CompareSync(cur, AdminRow(before.db.admins, id).password)
          IN  /\ ok <=> lastResp.status = 200
              /\ ~ok => admins = before.db.admins /\ disk.admins = before.db.admins
              /\ ok => /\ CompareSync(new, AdminRow(admins, id).password)
                       /\ pwChange = <<[old |-> cur, new |-> new]>>

\* C6 witness: the password was changed to a different one, and a login with
\* the old one is refused.
ChangePasswordWitness ==
    /\ LoginOfAdmin
    /\ pwChange[1].old = Admin123
    /\ pwChange[1].new = Password6
    /\ lastReq.password = Admin123
    /\ lastResp.status = 401

----------------------------------------------------------------------------

NewRows == participants \ before.db.participants

\* C7: register answers 400 exactly when name or game is missing or the trimmed
\* name is shorter than 2 or longer than 40; a rejected register changes no
\* table and writes nothing; an accepted one adds exactly one row, active, with
\* the trimmed name and game.
RegisterValidation ==
    lastReq.route = "register" =>
        LET name == lastReq.name
            game == lastReq.game
            missing == name \in {Absent, <<>>} \/ game \in {Absent, <<>>}
            bad == missing \/ Len(Trim(name)) \notin 2..40
        IN  /\ bad <=> lastResp.status = 400
            /\ lastResp.status \in {400, 409} =>
                  CurrentDb = before.db /\ written = <<>> /\ disk = before.db
            /\ lastResp.status \notin {400, 409} =>
                  /\ lastResp.status = 201
                  /\ before.db.participants \subseteq participants
                  /\ Cardinality(NewRows) = 1
                  /\ \A r \in NewRows :
                        /\ r.status = Active
                        /\ r.name = Trim(name)
                        /\ r.game = Trim(game)

\* C7 witness: a name of 40 characters behind a blank is accepted.
RegisterWitness ==
    /\ lastReq.route = "register"
    /\ lastReq.name = <<" ">> \o Name40
    /\ lastResp.status = 201

----------------------------------------------------------------------------

\* C8: deleteParticipant by a logged-in admin answers success whether or not
\* the id exists, removes the row with that id and no other, and so changes
\* nothing when the id is absent, as it is after a first call.
DeleteIdempotent ==
    (lastReq.route = "deleteParticipant" /\ Authed) =>
        /\ lastResp.status = 200
        /\ participants = {r \in before.db.participants : r.id # lastReq.id}
        /\ lastReq.id \notin Ids(before.db.participants) =>
              participants = before.db.participants
        /\ lastReq.id \notin Ids(participants)
        /\ disk.participants = participants

\* C8 witness: a delete of an id that was inserted and already deleted, with
\* another row present.
DeleteWitness ==
    /\ lastReq.route = "deleteParticipant"
    /\ lastResp.status = 200
    /\ lastReq.id <= pSeq
    /\ lastReq.id \notin Ids(before.db.participants)
    /\ participants # {}

----------------------------------------------------------------------------

\* C9 (as claimed): the id a successful register returns is the id of the row
\* it inserted.
RegisterReturnsNewId ==
    (lastReq.route = "register" /\ lastResp.status = 201) =>
        \E r \in NewRows : r.id = lastResp.id

----------------------------------------------------------------------------

AllGiven == ~Falsy(lastReq.status) /\ ~Falsy(lastReq.name) /\ ~Falsy(lastReq.game)

\* C10 (as claimed): an updateParticipant with all three fields persists three
\* times.
ThreePersists ==
    (lastReq.route = "updateParticipant" /\ Authed /\ AllGiven) => Len(written) = 3

\* C10 (amended): updateParticipant applies each field the body carries and
\* leaves a field that is absent or empty unchanged, then persists once: the
\* one snapshot it writes holds all the requested fields, and rows with
\* another id are untouched.
SinglePersist ==
    (lastReq.route = "updateParticipant" /\ Authed) =>
        /\ lastResp.status = 200
        /\ Len(written) = 1
        /\ written[1].participants = participants
        /\ Ids(participants) = Ids(before.db.participants)
        /\ \A old \in before.db.participants : \E r \in participants :
              /\ r.id = old.id
              /\ old.id # lastReq.id => r = old
              /\ old.id = lastReq.id =>
                    /\ r.status = IF lastReq.status \in {Absent, <<>>} THEN old.status
                                  ELSE lastReq.status
                    /\ r.name = IF lastReq.name \in {Absent, <<>>} THEN old.name
                                ELSE Trim(lastReq.name)
                    /\ r.game = IF lastReq.game \in {Absent, <<>>} THEN old.game
                                ELSE Trim(lastReq.game)

\* C10 witness: all three fields given for an existing row, and all three
\* changed in the one snapshot written.
SinglePersistWitness ==
    /\ lastReq.route = "updateParticipant"
    /\ lastResp.status = 200
    /\ AllGiven
    /\ \E old \in before.db.participants : \E r \in written[1].participants :
          /\ old.id = lastReq.id
          /\ r.id = old.id
          /\ r.status # old.status
          /\ r.name # old.name
          /\ r.game # old.game

====
